---- MODULE Spec2Model ----
(***************************************************************************)
(* SkillMatch AI (src/main.py): a Streamlit screening wizard.  Streamlit   *)
(* re-executes main() from the top on every widget event and on every      *)
(* rerun request; st.session_state is all a session keeps between two      *)
(* runs, and the MongoDB collection "candidates" is all that sessions      *)
(* share.  One action below is one script run of one session, except the   *)
(* final submission, whose duplicate query and insert are two database     *)
(* operations that other sessions' runs can come between.                  *)
(*                                                                         *)
(* Strings are sequences of one-character strings, so that trimming, the   *)
(* validators' patterns and the duplicate query's regular expression are   *)
(* computed on the characters.                                             *)
(*                                                                         *)
(* Spec is the wizard with its sessions; FairReruns and FairSpec add what  *)
(* keeps a session moving.  SpecQuestions, SpecScore and SpecEmail call one*)
(* helper (generate_questions, calculate_score, is_valid_email) on its own,*)
(* on every argument of a bounded set.                                     *)
(***************************************************************************)
EXTENDS Integers, Sequences, FiniteSets, TLC

\* ------------------------------------------------------------ bounds
\* Cap on the number of stored documents (the sessions below never reach it
\* as long as each inserts at most once).
MaxRecords == 3
\* Cap on the number of completion-service calls of one session that raise.
MaxRaises == 1

\* Caps on the responses put to generate_questions called on its own: the
\* technologies of a response and the questions of an array.
MaxTechs == 2
MaxQuestions == 4

\* Cap on the records put to calculate_score called on its own.
MaxAnswers == 8

\* Cap on the length of the strings put to is_valid_email called on its own.
MaxEmailLen == 7

\* The concurrent browser sessions.
Sessions == {"s1", "s2"}

\* ------------------------------------------------------------ state
VARIABLES
  collection,      \* db["candidates"]: the set of stored documents
  step,            \* st.session_state.step, per session
  answers,         \* st.session_state.answers: field name -> value
  questions,       \* st.session_state.questions
  tech_answers,    \* st.session_state.tech_answers
  feedbacks,       \* st.session_state.feedbacks
  question_index,  \* st.session_state.question_index
  pc,              \* "idle", or "checked": between the final query and the insert
  message,         \* what the session's last run signalled (st.warning, st.error, ...)
  dupStopped,      \* history: a run of the session ended in a duplicate's st.stop()
  genCalls,        \* history: calls of generate_questions made by the session
  arg,             \* a helper function called on its own: the call's argument
  ret              \* ... and what the call returned, once it has

session_state == <<step, answers, questions, tech_answers, feedbacks, question_index>>
call == <<arg, ret>>
vars == <<collection, step, answers, questions, tech_answers, feedbacks,
          question_index, pc, message, dupStopped, genCalls, arg, ret>>

\* ------------------------------------------------------------ characters
LowerCase == <<"a","b","c","d","e","f","g","h","i","j","k","l","m",
               "n","o","p","q","r","s","t","u","v","w","x","y","z">>
UpperCase == <<"A","B","C","D","E","F","G","H","I","J","K","L","M",
               "N","O","P","Q","R","S","T","U","V","W","X","Y","Z">>
Digits == {"0","1","2","3","4","5","6","7","8","9"}
Letters == {LowerCase[i] : i \in 1..26} \cup {UpperCase[i] : i \in 1..26}
WhiteSpace == {" ", "\t", "\n"}

ToLowerChar(c) ==
  IF \E i \in 1..26 : UpperCase[i] = c
  THEN LowerCase[CHOOSE i \in 1..26 : UpperCase[i] = c]
  ELSE c

ToLower(str) == [i \in 1..Len(str) |-> ToLowerChar(str[i])]

\* str.strip(): leading and trailing whitespace removed.
RECURSIVE LStrip(_)
LStrip(str) ==
  IF str # <<>> /\ Head(str) \in WhiteSpace THEN LStrip(Tail(str)) ELSE str

RECURSIVE RStrip(_)
RStrip(str) ==
  IF str # <<>> /\ str[Len(str)] \in WhiteSpace
  THEN RStrip(SubSeq(str, 1, Len(str) - 1))
  ELSE str

\* Variant: the value used as typed, strip() left out.
StripNothing(str) == str

Strip(str) == RStrip(LStrip(str))

\* ------------------------------------------------------------ validators
\* re.match(r"^[A-Za-z ]{2,50}$", name.strip())
is_valid_name(name) ==
  LET t == Strip(name)
  IN  /\ Len(t) >= 2
      /\ Len(t) <= 50
      /\ \A i \in 1..Len(t) : t[i] \in Letters \cup {" "}

\* re.match(r"[^@]+@[^@]+\.[^@]+", email.strip()): re.match anchors the
\* pattern at the start only, so a prefix of the string has to match: one or
\* more non-'@', an '@', then within the '@'-free run that follows a '.'
\* with at least one character before it and one after it.
is_valid_email(email) ==
  LET t == Strip(email)
  IN  \E a \in 2..Len(t) :
        /\ t[a] = "@"
        /\ \A i \in 1..(a - 1) : t[i] # "@"
        /\ \E d \in (a + 2)..(Len(t) - 1) :
             /\ t[d] = "."
             /\ \A i \in (a + 1)..(d + 1) : t[i] # "@"

\* re.match(r"^\+?[1-9]\d{1,14}$", phone.strip())
is_valid_phone(phone) ==
  LET t == Strip(phone)
      u == IF t # <<>> /\ Head(t) = "+" THEN Tail(t) ELSE t
  IN  /\ Len(u) >= 2
      /\ Len(u) <= 15
      /\ u[1] \in Digits \ {"0"}
      /\ \A i \in 2..Len(u) : u[i] \in Digits

\* float(exp) for strings over digits, '+', '-', '.' and letters other than
\* those of "inf", "nan" and exponents: an optional sign, digits with at most
\* one '.', at least one digit; anything else raises ValueError.
FloatParses(str) ==
  LET u == IF str # <<>> /\ Head(str) \in {"+", "-"} THEN Tail(str) ELSE str
  IN  /\ \A i \in 1..Len(u) : u[i] \in Digits \cup {"."}
      /\ Cardinality({i \in 1..Len(u) : u[i] = "."}) <= 1
      /\ \E i \in 1..Len(u) : u[i] \in Digits

DigitValue(c) == CHOOSE n \in 0..9 : <<"0","1","2","3","4","5","6","7","8","9">>[n + 1] = c

RECURSIVE DigitsValue(_)
DigitsValue(ds) ==
  IF ds = <<>> THEN 0
  ELSE 10 * DigitsValue(SubSeq(ds, 1, Len(ds) - 1)) + DigitValue(ds[Len(ds)])

\* 0 <= float(exp) <= 50, and False on ValueError.
is_valid_experience(exp) ==
  /\ FloatParses(exp)
  /\ LET neg  == Head(exp) = "-"
         u    == IF Head(exp) \in {"+", "-"} THEN Tail(exp) ELSE exp
         dot  == IF \E i \in 1..Len(u) : u[i] = "."
                 THEN CHOOSE i \in 1..Len(u) : u[i] = "."
                 ELSE Len(u) + 1
         int  == DigitsValue(SubSeq(u, 1, dot - 1))
         frac == DigitsValue(SubSeq(u, dot + 1, Len(u)))
     IN  IF neg THEN int = 0 /\ frac = 0
         ELSE int < 50 \/ (int = 50 /\ frac = 0)

\* ------------------------------------------------------------ duplicate query
\* MongoDB's {"$regex": f"^{email}$", "$options": "i"}: the email is pasted
\* into the pattern unescaped, so its characters are pattern syntax.  For
\* patterns over letters, digits, '@', '.' and '+' (no '+' first or after a
\* '+'): '.' matches any character but a newline, 'x+' one or more x, any
\* other character itself, ignoring case; ^ and $ anchor both ends.
AtomMatches(a, c) ==
  IF a = "." THEN c # "\n" ELSE ToLowerChar(a) = ToLowerChar(c)

RECURSIVE MatchFrom(_, _, _, _)
MatchFrom(pat, i, subject, j) ==
  IF i > Len(pat) THEN j > Len(subject)
  ELSE IF i < Len(pat) /\ pat[i + 1] = "+"
       THEN \E k \in (j + 1)..(Len(subject) + 1) :
              /\ \A m \in j..(k - 1) : AtomMatches(pat[i], subject[m])
              /\ MatchFrom(pat, i + 2, subject, k)
       ELSE /\ j <= Len(subject)
            /\ AtomMatches(pat[i], subject[j])
            /\ MatchFrom(pat, i + 1, subject, j + 1)

\* "^" + pat + "$" with option i, against the whole field value.
RegexFullMatch(pat, subject) == MatchFrom(pat, 1, subject, 1)

\* pat with option i and no anchors: some substring matches.
RegexSearch(pat, subject) ==
  \E a \in 1..(Len(subject) + 1) : \E b \in (a - 1)..Len(subject) :
    MatchFrom(pat, 1, SubSeq(subject, a, b), 1)

\* The two clauses of the "$or", over the documents of the collection.
EmailClause(email) ==
  \E doc \in collection : RegexFullMatch(email, doc.basic_info["Email"])

PhoneClause(phone_number) ==
  \E doc \in collection : doc.basic_info["Phone Number"] = phone_number

\* Variant: the email pattern without its anchors.
user_already_exists_unanchored(email, phone_number) ==
  \/ \E doc \in collection : RegexSearch(email, doc.basic_info["Email"])
  \/ PhoneClause(phone_number)

\* Variant: the query without its phone clause.
user_already_exists_email_only(email, phone_number) == EmailClause(email)

\* collection.find_one({"$or": [...]}) is not None
user_already_exists(email, phone_number) ==
  EmailClause(email) \/ PhoneClause(phone_number)

\* ------------------------------------------------------------ the form
form_fields == <<"Full Name", "Email", "Phone Number", "Years of Experience",
                 "Desired Position(s)", "Current Location", "Tech Stack">>

EmptyDict == [k \in {} |-> <<>>]

\* d.get(k, default)
Get(d, k, default) == IF k \in DOMAIN d THEN d[k] ELSE default

\* d[k] = v
DictSet(d, k, v) == [x \in DOMAIN d \cup {k} |-> IF x = k THEN v ELSE d[x]]

\* What a user types into the text input of each field: values the field
\* accepts (some padded with blanks), values its validator refuses, and
\* input that is blank.
Blank == <<" ">>

FieldInputs(field) ==
  CASE field = "Full Name" ->
         {<<" ", "A", "l", " ", "B">>, <<"a", "1">>, Blank}
    [] field = "Email" ->
         {<<"A", "@", "b", ".", "c", " ">>,
          <<"a", "+", "@", "b", ".", "c">>, <<"a", "b", ".", "c">>, Blank}
    [] field = "Phone Number" ->
         {<<"1", "2">>, <<"+", "1", "3", " ">>, <<"0", "2">>, Blank}
    [] field = "Years of Experience" ->
         {<<"5">>, <<"5", "1">>, <<"-", "1">>, <<"x">>, Blank}
    [] field = "Desired Position(s)" -> {<<"d", "e", "v">>, <<>>}
    [] field = "Current Location" -> {<<"U", "K", " ">>, Blank}
    [] field = "Tech Stack" -> {<<"p", "y">>, Blank}

\* ------------------------------------------------------------ completion service
\* A response of the completion service to the question prompt, as the JSON
\* its text holds (a code fence around it or not): text that is no JSON
\* ("unparseable"), a JSON value that is no object ("scalar", "array"), or an
\* object, given as the sequence of its (key, value) pairs in the order of
\* the text; a value is an array of strings, a string or a number.
Py == <<"P", "y">>
Q1 == <<"q", "1">>
Q2 == <<"q", "2">>

Responses ==
  { [kind |-> "unparseable"],
    [kind |-> "object",
     items |-> << [tech |-> Py, kind |-> "array", elems |-> <<Q1, Q2>>] >>] }

\* re.sub(r"```(?:json)?", "", text) on the characters of one JSON string:
\* the substitution runs over the whole text, so every fence marker inside a
\* key or a question goes as well, from left to right.
\* (The backquote is written as a token of its own: a TLA+ string cannot
\* hold the character.)
Backquote == "backquote"
Fence == <<Backquote, Backquote, Backquote>>

RECURSIVE RemoveFences(_)
RemoveFences(str) ==
  IF str = <<>> THEN <<>>
  ELSE IF Len(str) >= 3 /\ SubSeq(str, 1, 3) = Fence
       THEN IF Len(str) >= 7 /\ SubSeq(str, 4, 7) = <<"j", "s", "o", "n">>
            THEN RemoveFences(SubSeq(str, 8, Len(str)))
            ELSE RemoveFences(SubSeq(str, 4, Len(str)))
       ELSE <<Head(str)>> \o RemoveFences(Tail(str))

\* One (key, value) pair of clean_text.
Clean(item) ==
  IF item.kind = "array"
  THEN [tech |-> RemoveFences(item.tech), kind |-> "array",
        elems |-> [i \in 1..Len(item.elems) |-> RemoveFences(item.elems[i])]]
  ELSE IF item.kind = "string"
  THEN [tech |-> RemoveFences(item.tech), kind |-> "string",
        chars |-> RemoveFences(item.chars)]
  ELSE [tech |-> RemoveFences(item.tech), kind |-> item.kind]

\* json.loads of an object: a dict in insertion order, a repeated key keeping
\* its first position and taking the last value.
RECURSIVE LoadObject(_)
LoadObject(items) ==
  IF items = <<>> THEN <<>>
  ELSE LET last   == items[Len(items)]
           loaded == LoadObject(SubSeq(items, 1, Len(items) - 1))
       IN  IF \E i \in 1..Len(loaded) : loaded[i].tech = last.tech
           THEN [i \in 1..Len(loaded) |->
                   IF loaded[i].tech = last.tech THEN last ELSE loaded[i]]
           ELSE Append(loaded, last)

\* parsed, for a response that is an object.
Parsed(response) ==
  LoadObject([i \in 1..Len(response.items) |-> Clean(response.items[i])])

\* for q in qlist: an array yields its elements, a string its characters,
\* and a number raises TypeError.
Iterates(value) == value.kind \in {"array", "string"}

Elements(value) ==
  IF value.kind = "array" THEN value.elems
  ELSE [i \in 1..Len(value.chars) |-> <<value.chars[i]>>]

RECURSIVE Flatten(_)
Flatten(items) ==
  IF items = <<>> THEN <<>>
  ELSE LET qlist == Elements(Head(items))
       IN  [i \in 1..Len(qlist) |->
              [tech |-> Head(items).tech, question |-> qlist[i]]]
           \o Flatten(Tail(items))

\* The try block of generate_questions: does it raise?  (parsed.items() on
\* anything but a dict, or the inner loop over a number.)
ParseRaises(response) ==
  \/ response.kind # "object"
  \/ \E i \in 1..Len(Parsed(response)) : ~Iterates(Parsed(response)[i])

\* generate_questions, given the service's response: the questions returned
\* and whether st.error was called.
generate_questions(response) ==
  IF ParseRaises(response)
  THEN [questions |-> <<>>, error |-> TRUE]
  ELSE [questions |-> Flatten(Parsed(response)), error |-> FALSE]

\* A response to the feedback prompt: one with text, or one whose .text
\* raises (no usable candidate).
Replies == { [kind |-> "text", text |-> <<" ", "o", "k", "\n">>],
             [kind |-> "notext"] }

NoFeedback == <<"N","o"," ","f","e","e","d","b","a","c","k"," ",
                "a","v","a","i","l","a","b","l","e",".">>

\* generate_feedback, given the service's response.
generate_feedback(reply) ==
  IF reply.kind = "text" THEN Strip(reply.text) ELSE NoFeedback

\* What a user types into the answer text area.
AnswerInputs == {<<" ", "\n">>, <<" ", "i", "t", " ", "d", "e", "p", "e", "n", "d", "s", " ">>}

\* ------------------------------------------------------------ score
Points(answer_len) ==
  IF answer_len > 100 THEN 3
  ELSE IF answer_len > 50 THEN 2
  ELSE IF answer_len > 20 THEN 1
  ELSE 0

RECURSIVE SumPoints(_)
SumPoints(items) ==
  IF items = <<>> THEN 0
  ELSE Points(Len(Strip(Head(items).answer))) + SumPoints(Tail(items))

\* Variant: int() for round(), the fraction dropped.
RoundDown(num, den) == num \div den

\* Python's round(): to the nearest integer, a tie to the even one.  (The
\* code rounds the float (score / total_possible) * 100; for fewer than 40
\* answers that is the rounding of the exact quotient.)
RoundHalfEven(num, den) ==
  LET q == num \div den
      r == num % den
  IN  IF 2 * r < den THEN q
      ELSE IF 2 * r > den THEN q + 1
      ELSE IF q % 2 = 0 THEN q ELSE q + 1

\* Variant: nothing to score counted as full marks.
calculate_score_full_marks(items) ==
  LET score == SumPoints(items)
      total_possible == Len(items) * 3
  IN  IF total_possible # 0 THEN RoundHalfEven(score * 100, total_possible) ELSE 100

calculate_score(items) ==
  LET score == SumPoints(items)
      total_possible == Len(items) * 3
  IN  IF total_possible # 0 THEN RoundHalfEven(score * 100, total_possible) ELSE 0

\* ------------------------------------------------------------ messages
NoMessage == ""
UncaughtException == "uncaught exception"

\* No helper is being called on its own.
NoCall == [fn |-> "none"]

\* ------------------------------------------------------------ initial state
NoSessionStarted ==
  /\ collection = {}
  /\ step = [s \in Sessions |-> 0]
  /\ answers = [s \in Sessions |-> EmptyDict]
  /\ questions = [s \in Sessions |-> <<>>]
  /\ tech_answers = [s \in Sessions |-> <<>>]
  /\ feedbacks = [s \in Sessions |-> <<>>]
  /\ question_index = [s \in Sessions |-> 0]
  /\ pc = [s \in Sessions |-> "idle"]
  /\ message = [s \in Sessions |-> NoMessage]
  /\ dupStopped = [s \in Sessions |-> FALSE]
  /\ genCalls = [s \in Sessions |-> 0]

Init ==
  /\ NoSessionStarted
  /\ arg = NoCall
  /\ ret = NoCall

\* ------------------------------------------------------------ script runs
\* st.warning(text) and return: the run ends, the session state is as it was.
Warn(s, text) ==
  /\ message' = [message EXCEPT ![s] = text]
  /\ UNCHANGED <<collection, session_state, pc, dupStopped, genCalls, call>>

\* st.error(text) and st.stop() on a duplicate: the run ends there; nothing
\* is written to the session state.
Stop(s, text) ==
  /\ message' = [message EXCEPT ![s] = text]
  /\ dupStopped' = [dupStopped EXCEPT ![s] = TRUE]
  /\ UNCHANGED <<collection, session_state, pc, genCalls, call>>

\* The form of a profile field is submitted with the text raw.
SubmitField(s, raw) ==
  /\ step[s] < Len(form_fields)
  /\ LET current_field == form_fields[step[s] + 1]
         user_input == Strip(raw)
     IN  /\ raw \in FieldInputs(current_field)
         /\ IF user_input = <<>>
            THEN Warn(s, "Please enter a value.")
            ELSE IF current_field = "Full Name" /\ ~is_valid_name(user_input)
            THEN Warn(s, "Please enter a valid name.")
            ELSE IF current_field = "Email" /\ ~is_valid_email(user_input)
            THEN Warn(s, "Please enter a valid email address.")
            ELSE IF current_field = "Email" /\ user_already_exists(user_input, <<>>)
            THEN Stop(s, "This email has already been used.")
            ELSE IF current_field = "Phone Number" /\ ~is_valid_phone(user_input)
            THEN Warn(s, "Please enter a valid phone number.")
            ELSE IF /\ current_field = "Phone Number"
                    /\ user_already_exists(Get(answers[s], "Email", <<>>), user_input)
            THEN Stop(s, "This phone number is already used.")
            ELSE IF /\ current_field = "Years of Experience"
                    /\ ~is_valid_experience(user_input)
            THEN Warn(s, "Please enter a valid experience (0-50 years).")
            ELSE /\ answers' = [answers EXCEPT
                                  ![s] = DictSet(@, current_field, user_input)]
                 /\ step' = [step EXCEPT ![s] = @ + 1]
                 /\ message' = [message EXCEPT ![s] = NoMessage]
                 /\ UNCHANGED <<collection, questions, tech_answers, feedbacks,
                                question_index, pc, dupStopped, genCalls, call>>

\* The run at step == len(form_fields), the completion service answering
\* with response.
Generate(s, response) ==
  /\ step[s] = Len(form_fields)
  /\ LET tech_stack == Get(answers[s], "Tech Stack", <<>>)
     IN  IF tech_stack # <<>>
         THEN LET result == generate_questions(response)
              IN  /\ questions' = [questions EXCEPT ![s] = result.questions]
                  /\ step' = [step EXCEPT ![s] = @ + 1]
                  /\ message' = [message EXCEPT ![s] =
                                   IF result.error THEN "Error parsing AI response."
                                   ELSE NoMessage]
                  /\ genCalls' = [genCalls EXCEPT ![s] = @ + 1]
                  /\ UNCHANGED <<collection, answers, tech_answers, feedbacks,
                                 question_index, pc, dupStopped, call>>
         ELSE /\ message' = [message EXCEPT ![s] = "Tech Stack not found."]
              /\ UNCHANGED <<collection, session_state, pc, dupStopped, genCalls, call>>

\* The same run when model.generate_content raises (lines 64-65 are outside
\* the try): the exception leaves main(), nothing is assigned.
GenerateRaises(s) ==
  /\ step[s] = Len(form_fields)
  /\ Get(answers[s], "Tech Stack", <<>>) # <<>>
  /\ genCalls[s] < MaxRaises
  /\ genCalls' = [genCalls EXCEPT ![s] = @ + 1]
  /\ message' = [message EXCEPT ![s] = UncaughtException]
  /\ UNCHANGED <<collection, session_state, pc, dupStopped, call>>

\* Variant: the emptiness test of the answer without its strip().
AnswerUnstripped(s, raw, reply) ==
  /\ step[s] = Len(form_fields) + 1
  /\ question_index[s] < Len(questions[s])
  /\ raw \in AnswerInputs /\ reply \in Replies
  /\ LET current_q == questions[s][question_index[s] + 1]
         feedback == generate_feedback(reply)
     IN  /\ raw # <<>>
         /\ tech_answers' = [tech_answers EXCEPT ![s] = Append(@,
                               [tech |-> current_q.tech,
                                question |-> current_q.question,
                                answer |-> Strip(raw),
                                feedback |-> feedback])]
         /\ feedbacks' = [feedbacks EXCEPT ![s] = Append(@, feedback)]
         /\ question_index' = [question_index EXCEPT ![s] = @ + 1]
         /\ message' = [message EXCEPT ![s] = NoMessage]
         /\ UNCHANGED <<collection, step, answers, questions, pc, dupStopped,
                        genCalls, call>>

\* The form of the current question is submitted with the text raw, the
\* completion service answering the feedback prompt with reply.
Answer(s, raw, reply) ==
  /\ step[s] = Len(form_fields) + 1
  /\ question_index[s] < Len(questions[s])
  /\ raw \in AnswerInputs /\ reply \in Replies
  /\ LET current_q == questions[s][question_index[s] + 1]
         feedback == generate_feedback(reply)
     IN  IF Strip(raw) = <<>>
         THEN Warn(s, "Answer is required.")
         ELSE /\ tech_answers' = [tech_answers EXCEPT ![s] = Append(@,
                                    [tech |-> current_q.tech,
                                     question |-> current_q.question,
                                     answer |-> Strip(raw),
                                     feedback |-> feedback])]
              /\ feedbacks' = [feedbacks EXCEPT ![s] = Append(@, feedback)]
              /\ question_index' = [question_index EXCEPT ![s] = @ + 1]
              /\ message' = [message EXCEPT ![s] = NoMessage]
              /\ UNCHANGED <<collection, step, answers, questions, pc,
                             dupStopped, genCalls, call>>

\* The same submission of a non-blank answer when model.generate_content
\* raises in generate_feedback (line 88 is outside the try): the exception
\* leaves main() before anything is appended.
AnswerRaises(s, raw) ==
  /\ step[s] = Len(form_fields) + 1
  /\ question_index[s] < Len(questions[s])
  /\ raw \in AnswerInputs
  /\ Strip(raw) # <<>>
  /\ message' = [message EXCEPT ![s] = UncaughtException]
  /\ UNCHANGED <<collection, session_state, pc, dupStopped, genCalls, call>>

\* Variant: the branch taken for every step past the form, not only for
\* step == len(form_fields) + 1.
AdvanceToSummaryAnyStep(s) ==
  /\ step[s] >= Len(form_fields) + 1
  /\ question_index[s] >= Len(questions[s])
  /\ step' = [step EXCEPT ![s] = @ + 1]
  /\ message' = [message EXCEPT ![s] = NoMessage]
  /\ UNCHANGED <<collection, answers, questions, tech_answers, feedbacks,
                 question_index, pc, dupStopped, genCalls, call>>

\* Variant: the step to the summary taken with questions still to ask.
AdvanceToSummaryEarly(s) ==
  /\ step[s] = Len(form_fields) + 1
  /\ step' = [step EXCEPT ![s] = @ + 1]
  /\ message' = [message EXCEPT ![s] = NoMessage]
  /\ UNCHANGED <<collection, answers, questions, tech_answers, feedbacks,
                 question_index, pc, dupStopped, genCalls, call>>

\* The run at step == len(form_fields) + 1 with no question left.
AdvanceToSummary(s) ==
  /\ step[s] = Len(form_fields) + 1
  /\ question_index[s] >= Len(questions[s])
  /\ step' = [step EXCEPT ![s] = @ + 1]
  /\ message' = [message EXCEPT ![s] = NoMessage]
  /\ UNCHANGED <<collection, answers, questions, tech_answers, feedbacks,
                 question_index, pc, dupStopped, genCalls, call>>

\* The documents a session has inserted (insert_one gives each its own _id).
InsertedBy(s) == {doc \in collection : doc.id[1] = s}

\* candidate_data, with the _id insert_one adds.
CandidateData(s) ==
  [basic_info |-> answers[s],
   technical_answers |-> tech_answers[s],
   score_percent |-> calculate_score(tech_answers[s]),
   id |-> <<s, Cardinality(InsertedBy(s)) + 1>>]

\* "Submit Final & Exit" is pressed: the duplicate query of line 235.
SubmitCheck(s) ==
  /\ step[s] > Len(form_fields) + 1
  /\ pc[s] = "idle"
  /\ LET email == Get(answers[s], "Email", <<>>)
         phone == Get(answers[s], "Phone Number", <<>>)
     IN  IF user_already_exists(email, phone)
         THEN Warn(s, "This user has already submitted their responses.")
         ELSE /\ pc' = [pc EXCEPT ![s] = "checked"]
              /\ UNCHANGED <<collection, session_state, message, dupStopped,
                             genCalls, call>>

\* The same run goes on after a query that found nothing: save_to_mongo,
\* st.success and st.stop().
SubmitInsert(s) ==
  /\ pc[s] = "checked"
  /\ Cardinality(collection) < MaxRecords
  /\ collection' = collection \cup {CandidateData(s)}
  /\ pc' = [pc EXCEPT ![s] = "idle"]
  /\ message' = [message EXCEPT ![s] = "Data submitted and saved!"]
  /\ UNCHANGED <<session_state, dupStopped, genCalls, call>>

\* ------------------------------------------------------------ specification
AllFieldInputs == UNION {FieldInputs(form_fields[i]) : i \in 1..Len(form_fields)}

Next ==
  \E s \in Sessions :
    \/ \E raw \in AllFieldInputs : SubmitField(s, raw)
    \/ \E response \in Responses : Generate(s, response)
    \/ GenerateRaises(s)
    \/ \E raw \in AnswerInputs : \E reply \in Replies : Answer(s, raw, reply)
    \/ \E raw \in AnswerInputs : AnswerRaises(s, raw)
    \/ AdvanceToSummary(s)
    \/ SubmitCheck(s)
    \/ SubmitInsert(s)

Spec == Init /\ [][Next]_vars

\* ------------------------------------------------------------ scheduling
\* What keeps a session moving.  st.rerun() (lines 168, 177, 209, 212) makes
\* Streamlit run the script again at once, with no user action: the run at
\* step 7 that calls the question generator and the run at step 8 that finds
\* no question left are not waited for.  The user, for the rest: a user who
\* goes on using the wizard submits, again and again if need be, a value that
\* is valid and belongs to no stored record, and a non-blank answer; and the
\* completion service, called again and again, returns.
FreshValue(s, raw) ==
  LET field == form_fields[step[s] + 1]
      email == IF field = "Email" THEN Strip(raw)
               ELSE Get(answers[s], "Email", <<>>)
      phone == IF field = "Phone Number" THEN Strip(raw) ELSE <<>>
  IN  /\ raw \in FieldInputs(field)
      /\ Strip(raw) # <<>>
      /\ field = "Full Name" => is_valid_name(raw)
      /\ field = "Email" => is_valid_email(raw)
      /\ field = "Phone Number" => is_valid_phone(raw)
      /\ field = "Years of Experience" => is_valid_experience(Strip(raw))
      /\ \A doc \in collection :
           /\ ToLower(doc.basic_info["Email"]) # ToLower(email)
           /\ doc.basic_info["Phone Number"] # phone

SubmitsFreshValue(s) ==
  \E raw \in AllFieldInputs : SubmitField(s, raw) /\ FreshValue(s, raw)

GeneratorReturns(s) == \E response \in Responses : Generate(s, response)

AnswersQuestion(s) ==
  \E raw \in AnswerInputs : \E reply \in Replies :
    Answer(s, raw, reply) /\ Strip(raw) # <<>>

\* The automatic runs alone.
FairReruns ==
  /\ Spec
  /\ \A s \in Sessions : WF_vars(GeneratorReturns(s)) /\ WF_vars(AdvanceToSummary(s))

\* The automatic runs and the user.
FairSpec ==
  /\ FairReruns
  /\ \A s \in Sessions : SF_vars(SubmitsFreshValue(s)) /\ WF_vars(AnswersQuestion(s))

\* ------------------------------------------------------------ helpers on their own
\* A helper (a pure function of its argument) called once: the argument is
\* chosen at the start, the call stores what the helper returns.
Called(value) ==
  /\ ret = NoCall
  /\ ret' = [fn |-> arg.fn, value |-> value]
  /\ UNCHANGED <<collection, session_state, pc, message, dupStopped, genCalls,
                 arg>>

\* Responses to the question prompt: every top-level kind, and the objects
\* of up to MaxTechs pairs whose key is one of three names (one with a fence
\* marker in it) and whose value is an array of 0..MaxQuestions questions,
\* an array with a fence marker in a question, a string or a number.
JS == <<"J", "S">>
FencedPy == Fence \o Py
QText(i) == <<"q", <<"9", "8", "7", "6", "5", "4", "3", "2", "1">>[i]>>
QFenced == <<"a">> \o Fence \o <<"b">>

ResponseValues ==
  {[kind |-> "array", elems |-> [i \in 1..n |-> QText(i)]] : n \in 0..MaxQuestions}
  \cup {[kind |-> "array", elems |-> <<QFenced, Q1, Q2>>],
        [kind |-> "string", chars |-> <<"a", "b">>],
        [kind |-> "string", chars |-> <<>>],
        [kind |-> "number"]}

WithTech(tech, value) ==
  IF value.kind = "array"
  THEN [tech |-> tech, kind |-> "array", elems |-> value.elems]
  ELSE IF value.kind = "string"
  THEN [tech |-> tech, kind |-> "string", chars |-> value.chars]
  ELSE [tech |-> tech, kind |-> value.kind]

ResponseItems == {WithTech(tech, value) : tech \in {Py, JS, FencedPy},
                                         value \in ResponseValues}

GenResponses ==
  {[kind |-> k] : k \in {"unparseable", "scalar", "array"}}
  \cup {[kind |-> "object", items |-> items] :
          items \in UNION {[1..n -> ResponseItems] : n \in 0..MaxTechs}}

InitQuestions ==
  /\ NoSessionStarted
  /\ arg \in {[fn |-> "generate_questions", response |-> r] : r \in GenResponses}
  /\ ret = NoCall

CallGenerateQuestions ==
  /\ arg.fn = "generate_questions"
  /\ Called(generate_questions(arg.response))

SpecQuestions == InitQuestions /\ [][CallGenerateQuestions]_vars

\* Records put to calculate_score: up to MaxAnswers of them, in every
\* combination of answers at the edges of the three thresholds (20, 21, 50,
\* 51, 100 and 101 characters, two of them with whitespace around), listed
\* shortest first (the order has no part in the score).
Text(n) == [i \in 1..n |-> "x"]
Padded(n) == <<" ">> \o Text(n) \o <<"\n">>
ScoredAnswers == <<Padded(20), Text(21), Text(50), Text(51), Padded(100), Text(101)>>

Record(answer) ==
  [tech |-> Py, question |-> Q1, answer |-> answer, feedback |-> NoFeedback]

RECURSIVE Repeated(_, _)
Repeated(item, n) == IF n = 0 THEN <<>> ELSE <<item>> \o Repeated(item, n - 1)

RECURSIVE RecordsFrom(_, _)
RecordsFrom(count, k) ==
  IF k > Len(ScoredAnswers) THEN <<>>
  ELSE Repeated(Record(ScoredAnswers[k]), count[k]) \o RecordsFrom(count, k + 1)

RECURSIVE Total(_, _)
Total(count, k) == IF k = 0 THEN 0 ELSE count[k] + Total(count, k - 1)

ScoreInputs ==
  {RecordsFrom(count, 1) :
     count \in {c \in [1..Len(ScoredAnswers) -> 0..MaxAnswers] :
                  Total(c, Len(ScoredAnswers)) <= MaxAnswers}}

InitScore ==
  /\ NoSessionStarted
  /\ arg \in {[fn |-> "calculate_score", items |-> items] : items \in ScoreInputs}
  /\ ret = NoCall

CallCalculateScore ==
  /\ arg.fn = "calculate_score"
  /\ Called(calculate_score(arg.items))

SpecScore == InitScore /\ [][CallCalculateScore]_vars

\* Strings put to is_valid_email: all those of up to MaxEmailLen characters
\* over a letter, '@', '.' and the blank.
EmailAlphabet == {"a", "@", ".", " "}

EmailInputs == UNION {[1..n -> EmailAlphabet] : n \in 0..MaxEmailLen}

InitEmail ==
  /\ NoSessionStarted
  /\ arg \in {[fn |-> "is_valid_email", email |-> email] : email \in EmailInputs}
  /\ ret = NoCall

CallIsValidEmail ==
  /\ arg.fn = "is_valid_email"
  /\ Called(is_valid_email(arg.email))

SpecEmail == InitEmail /\ [][CallIsValidEmail]_vars

\* ------------------------------------------------------------ claims
Email(doc) == doc.basic_info["Email"]
Phone(doc) == doc.basic_info["Phone Number"]

\* Two strings equal ignoring case, as full strings.
SameEmail(e1, e2) == ToLower(e1) = ToLower(e2)

\* C1. No two stored records share an Email that is equal ignoring case or
\* an identical Phone Number, however the sessions' runs interleave.
C1_StoredRecordsUnique ==
  \A d1 \in collection : \A d2 \in collection :
    d1 # d2 => /\ ~SameEmail(Email(d1), Email(d2))
               /\ Phone(d1) # Phone(d2)

\* C2. A submit action that runs while the collection holds a record with the
\* session's Email (ignoring case) or Phone Number is refused: the run ends
\* without going on to the insert, and the collection and every session
\* variable are unchanged.
DuplicatePresent(s) ==
  \E doc \in collection :
    \/ SameEmail(Email(doc), Get(answers[s], "Email", <<>>))
    \/ Phone(doc) = Get(answers[s], "Phone Number", <<>>)

C2_SubmitWithDuplicateChangesNothing ==
  [][\A s \in Sessions :
       (SubmitCheck(s) /\ DuplicatePresent(s))
         => /\ pc'[s] = "idle"
            /\ UNCHANGED <<collection, session_state>>]_vars

\* C3. A session contributes at most one record to the collection: once it
\* has written its record, no later press of the submit button gets past the
\* duplicate query to write another.
C3_AtMostOneRecordPerSession ==
  \A s \in Sessions :
    /\ Cardinality(InsertedBy(s)) <= 1
    /\ InsertedBy(s) # {} => pc[s] = "idle"

\* C3's case: a session has written its record and a further press of the
\* button was refused.
C3_Witness ==
  \E s \in Sessions :
    /\ Cardinality(InsertedBy(s)) = 1
    /\ message[s] = "This user has already submitted their responses."

\* Queries put to the duplicate checker: emails the validator accepts and
\* non-blank phones, stored or not.
ProbeEmails == { e \in { <<"a", "@", "b", ".", "c">>, <<"A", "@", "b", ".", "c">>,
                         <<"a", "+", "@", "b", ".", "c">>,
                         <<"z", "@", "b", ".", "c">> } : is_valid_email(e) }
ProbePhones == { <<"1", "2">>, <<"+", "1", "3">>, <<"9", "9">> }

\* C4. For every email the validator accepts and every non-blank phone,
\* user_already_exists is true exactly when some stored record has that Email
\* ignoring case, as a full string, or exactly that Phone Number.
C4_DuplicateCheckerResult ==
  \A e \in ProbeEmails : \A p \in ProbePhones :
    user_already_exists(e, p)
      <=> \E doc \in collection : SameEmail(Email(doc), e) \/ Phone(doc) = p

\* C5. A blank query field never matches: no stored record has a blank Email
\* or Phone Number, the early check user_already_exists(email, "") is decided
\* by the email clause alone and a query with a blank email by the phone
\* clause alone, so a blank email with a phone no record has gives false.
C5_BlankFieldNeverMatches ==
  /\ \A doc \in collection : Email(doc) # <<>> /\ Phone(doc) # <<>>
  /\ \A e \in ProbeEmails : user_already_exists(e, <<>>) <=> EmailClause(e)
  /\ \A p \in ProbePhones :
       /\ user_already_exists(<<>>, p) <=> PhoneClause(p)
       /\ (\A doc \in collection : Phone(doc) # p) => ~user_already_exists(<<>>, p)

\* C5's case: the early check at the Email step has reported a stored email,
\* and a query with a blank email and a phone no record has finds nothing.
C5_Witness ==
  /\ \E s \in Sessions : /\ step[s] = 1
                         /\ message[s] = "This email has already been used."
  /\ collection # {}
  /\ ~user_already_exists(<<>>, <<"9", "9">>)

\* C6. The step counter never decreases, changes only by +1 and never
\* exceeds 9; question_index never decreases and changes only by +1, in a
\* run that finds the session in Asking and leaves it there.
C6_ForwardOnlyStepping ==
  [][\A s \in Sessions :
       /\ step'[s] = step[s] \/ step'[s] = step[s] + 1
       /\ step'[s] <= Len(form_fields) + 2
       /\ \/ question_index'[s] = question_index[s]
          \/ /\ question_index'[s] = question_index[s] + 1
             /\ step[s] = Len(form_fields) + 1
             /\ step'[s] = step[s]]_vars

\* C6's case: a session has stepped through the whole wizard, two questions
\* answered.
C6_Witness ==
  \E s \in Sessions : step[s] = Len(form_fields) + 2 /\ question_index[s] = 2

\* The submissions the claim calls rejected: empty after trimming, or
\* refused by the field's validator.
FailsValidation(field, raw) ==
  \/ Strip(raw) = <<>>
  \/ field = "Full Name" /\ ~is_valid_name(Strip(raw))
  \/ field = "Email" /\ ~is_valid_email(Strip(raw))
  \/ field = "Phone Number" /\ ~is_valid_phone(Strip(raw))
  \/ field = "Years of Experience" /\ ~is_valid_experience(Strip(raw))

\* C7. A Collecting submission that is empty after trimming or fails its
\* field's validator, and an Asking submission whose answer is empty after
\* trimming, change neither the session state nor the collection (so the
\* same step takes whatever it would have taken before).
C7_RejectedInputChangesNothing ==
  [][\A s \in Sessions :
       /\ \A raw \in AllFieldInputs :
            (SubmitField(s, raw) /\ FailsValidation(form_fields[step[s] + 1], raw))
              => UNCHANGED <<session_state, collection, pc>>
       /\ \A raw \in AnswerInputs : \A reply \in Replies :
            (Answer(s, raw, reply) /\ Strip(raw) = <<>>)
              => UNCHANGED <<session_state, collection, pc>>]_vars

\* C7's case: one session has had a blank answer refused after an accepted
\* one, another a malformed email.
C7_Witness ==
  \E s \in Sessions : \E u \in Sessions :
    /\ message[s] = "Answer is required."
    /\ question_index[s] = 1
    /\ message[u] = "Please enter a valid email address."
    /\ step[u] = 1

\* C8. Once the duplicate checker has reported a match at the Email or the
\* Phone Number step of a session, no later submission of that session is
\* accepted: its step and answers never change again and it never writes a
\* record.
C8_DuplicateIsHardStop ==
  [][\A s \in Sessions :
       dupStopped[s] => /\ step'[s] = step[s]
                        /\ answers'[s] = answers[s]
                        /\ pc'[s] = "idle"
                        /\ InsertedBy(s)' = InsertedBy(s)]_vars

\* C9. A submission at the Email step whose value equals, ignoring case, the
\* Email of a record in the collection is rejected on that submission: the
\* value is not stored and the step stays at the Email step.
C9_DuplicateEmailRejectedEarly ==
  [][\A s \in Sessions : \A raw \in FieldInputs("Email") :
       ( /\ step[s] = 1
         /\ SubmitField(s, raw)
         /\ \E doc \in collection : SameEmail(Email(doc), Strip(raw)) )
         => /\ step'[s] = 1
            /\ answers'[s] = answers[s]]_vars

\* C10. A session enters Generating once, calls the Question Generator
\* exactly once in its life, and leaves Generating for Asking with
\* question_index 0, no answer recorded and the generator's output as its
\* questions.
C10_GeneratingRunsOnce ==
  [][\A s \in Sessions :
       /\ genCalls'[s] <= 1
       /\ step'[s] > Len(form_fields) => genCalls'[s] = 1
       /\ step[s] > Len(form_fields) => step'[s] > Len(form_fields)
       /\ (step[s] = Len(form_fields) /\ step'[s] # step[s])
            => /\ step'[s] = Len(form_fields) + 1
               /\ question_index'[s] = 0
               /\ tech_answers'[s] = <<>>
               /\ \E response \in Responses :
                    questions'[s] = generate_questions(response).questions]_vars

\* The first n form fields.
FirstFields(n) == {form_fields[i] : i \in 1..n}

Min(a, b) == IF a < b THEN a ELSE b

\* A stored value is non-empty and has no whitespace at either end.
Trimmed(v) ==
  /\ v # <<>>
  /\ v[1] \notin WhiteSpace
  /\ v[Len(v)] \notin WhiteSpace

ProfileWellFormed(s) ==
  LET d == answers[s]
  IN  /\ DOMAIN d = FirstFields(Min(step[s], Len(form_fields)))
      /\ \A k \in DOMAIN d : Trimmed(d[k])
      /\ "Full Name" \in DOMAIN d => is_valid_name(d["Full Name"])
      /\ "Email" \in DOMAIN d => is_valid_email(d["Email"])
      /\ "Phone Number" \in DOMAIN d => is_valid_phone(d["Phone Number"])
      /\ "Years of Experience" \in DOMAIN d
           => is_valid_experience(d["Years of Experience"])

\* C11. In every state, answers holds exactly the first min(step, 7) form
\* fields, each value non-empty and trimmed, Full Name, Email, Phone Number
\* and Years of Experience each satisfying its validator; and once step is 7
\* or more, answers never changes again.
C11_CandidateProfileInvariant ==
  /\ [](\A s \in Sessions : ProfileWellFormed(s))
  /\ [][\A s \in Sessions :
          step[s] >= Len(form_fields) => answers'[s] = answers[s]]_vars

\* C11's case: a session past the form with its seven fields stored, the
\* name, the email and the location typed with blanks around them.
C11_Witness ==
  \E s \in Sessions :
    /\ step[s] > Len(form_fields)
    /\ DOMAIN answers[s] = FirstFields(Len(form_fields))
    /\ answers[s]["Full Name"] = <<"A", "l", " ", "B">>
    /\ answers[s]["Email"] = <<"A", "@", "b", ".", "c">>
    /\ answers[s]["Current Location"] = <<"U", "K">>

\* C12. A feedback failure never blocks progress: for every non-empty answer
\* submitted in Asking, whether the service call itself raises or the
\* response has no usable text, the record is appended with the feedback
\* "No feedback available." and question_index advances by 1.
C12_FeedbackFailureNeverBlocks ==
  [][\A s \in Sessions : \A raw \in AnswerInputs :
       ( \/ AnswerRaises(s, raw)
         \/ Answer(s, raw, [kind |-> "notext"]) /\ Strip(raw) # <<>> )
         => /\ question_index'[s] = question_index[s] + 1
            /\ feedbacks'[s] = Append(feedbacks[s], NoFeedback)
            /\ tech_answers'[s] = Append(tech_answers[s],
                 [tech |-> questions[s][question_index[s] + 1].tech,
                  question |-> questions[s][question_index[s] + 1].question,
                  answer |-> Strip(raw),
                  feedback |-> NoFeedback])]_vars

\* generate_questions has returned from the call made on its own.
QuestionsReturned == ret.fn = "generate_questions"

\* A response is a JSON object mapping technology names to arrays of
\* question strings.
WellFormed(response) ==
  /\ response.kind = "object"
  /\ \A i \in 1..Len(response.items) : response.items[i].kind = "array"

\* C13. For every response that is not a JSON object mapping technology
\* names to arrays of question strings (no JSON, an array or a scalar at the
\* top level, a value that is a string or a number), generate_questions
\* signals the error and returns the empty sequence.
C13_BadResponseGivesErrorAndNothing ==
  (QuestionsReturned /\ ~WellFormed(arg.response))
    => ret.value = [questions |-> <<>>, error |-> TRUE]

\* The technology names a response lists.
TechsNamed(response) ==
  {response.items[i].tech : i \in 1..Len(response.items)}

\* C14. Every non-empty result of generate_questions holds exactly 3
\* questions for each technology the response names, so its length is 3
\* times the number of technologies.
C14_ThreeQuestionsPerTechnology ==
  (QuestionsReturned /\ ret.value.questions # <<>>)
    => LET qs == ret.value.questions
       IN  /\ Len(qs) = 3 * Cardinality(TechsNamed(arg.response))
           /\ \A tech \in TechsNamed(arg.response) :
                Cardinality({i \in 1..Len(qs) : qs[i].tech = tech}) = 3

\* The number of questions a response lists before those of its i-th
\* technology.
RECURSIVE QuestionsBefore(_, _)
QuestionsBefore(items, i) ==
  IF i = 1 THEN 0
  ELSE QuestionsBefore(items, i - 1) + Len(items[i - 1].elems)

\* C15. For a well-formed response (a mapping: no technology named twice),
\* generate_questions returns the flattening of the mapping: the questions of
\* the i-th technology, in the order of its array, after all those of the
\* technologies listed before it, nothing added, dropped or re-sorted.
C15_QuestionOrderFollowsResponse ==
  ( /\ QuestionsReturned
    /\ WellFormed(arg.response)
    /\ Cardinality(TechsNamed(arg.response)) = Len(arg.response.items) )
    => LET items == arg.response.items
           qs    == ret.value.questions
       IN  /\ Len(qs) = QuestionsBefore(items, Len(items) + 1)
           /\ \A i \in 1..Len(items) : \A j \in 1..Len(items[i].elems) :
                qs[QuestionsBefore(items, i) + j]
                  = [tech |-> items[i].tech, question |-> items[i].elems[j]]

Abs(x) == IF x < 0 THEN -x ELSE x

\* C16. calculate_score returns 0 for the empty sequence and otherwise an
\* integer nearest to 100 * P / (3 * n), P the sum of the answers' points and
\* n their number: no integer is nearer, also when the percentage is halfway
\* between two integers (P = 3, n = 8); the result is always in 0..100.
C16_ScoreIsNearestPercentage ==
  ret.fn = "calculate_score"
    => LET n == Len(arg.items)
           P == SumPoints(arg.items)
       IN  /\ ret.value \in 0..100
           /\ n = 0 => ret.value = 0
           /\ n > 0 => 2 * Abs(3 * n * ret.value - 100 * P) <= 3 * n

\* C16's case: 8 answers with 3 points in all, 12.5 percent, scored 12.
C16_Witness ==
  /\ ret.fn = "calculate_score"
  /\ Len(arg.items) = 8
  /\ SumPoints(arg.items) = 3
  /\ ret.value = 12

\* One or more non-'@' characters, an '@', one or more non-'@' characters, a
\* '.', one or more non-'@' characters, and nothing else.
AddressShape(t) ==
  \E a \in 2..Len(t) :
    /\ t[a] = "@"
    /\ \A i \in 1..Len(t) : i # a => t[i] # "@"
    /\ \E d \in (a + 2)..(Len(t) - 1) : t[d] = "."

\* C17. is_valid_email returns true exactly for the strings whose trimmed
\* form has the address shape, and false for every other string, a string
\* with a second '@' after a valid prefix ("a@b.c@d") among them.
C17_EmailValidatorAcceptsExactlyTheShape ==
  ret.fn = "is_valid_email" => (ret.value <=> AddressShape(Strip(arg.email)))

\* The records of a session line up with its questions.
RecordsLineUp(s) ==
  /\ question_index[s] = Len(tech_answers[s])
  /\ question_index[s] = Len(feedbacks[s])
  /\ question_index[s] <= Len(questions[s])
  /\ \A i \in 1..Len(tech_answers[s]) :
       /\ tech_answers[s][i].tech = questions[s][i].tech
       /\ tech_answers[s][i].question = questions[s][i].question
       /\ Trimmed(tech_answers[s][i].answer)
  /\ step[s] = Len(form_fields) + 2 => Len(tech_answers[s]) = Len(questions[s])

\* C18. In every state question_index = Len(tech_answers) = Len(feedbacks)
\* <= Len(questions), the i-th record carries the technology and the text of
\* the i-th question and a non-empty trimmed answer, and in Summary there are
\* as many records as questions; a record once appended is never changed or
\* removed.
C18_RecordsAlignWithQuestions ==
  /\ [](\A s \in Sessions : RecordsLineUp(s))
  /\ [][\A s \in Sessions :
          /\ Len(tech_answers'[s]) >= Len(tech_answers[s])
          /\ SubSeq(tech_answers'[s], 1, Len(tech_answers[s])) = tech_answers[s]]_vars

\* C18's case: a session in Summary with a record for each of its two
\* questions, the first with the fallback feedback.
C18_Witness ==
  \E s \in Sessions :
    /\ step[s] = Len(form_fields) + 2
    /\ Len(questions[s]) = 2
    /\ Len(tech_answers[s]) = 2
    /\ tech_answers[s][1].feedback = NoFeedback
    /\ tech_answers[s][2].question = Q2

\* What a session keeps between two runs, and what its last run signalled.
OfSession(s) ==
  <<step[s], answers[s], questions[s], tech_answers[s], feedbacks[s],
    question_index[s], pc[s], message[s]>>

\* The session is past the generator, which returned no question.
NoQuestions(s) == step[s] > Len(form_fields) /\ questions[s] = <<>>

\* C19. When the question generator returns the empty list, the session goes
\* from Asking on to Summary without any user action (the only run that
\* changes it is the automatic one that finds no question left, and that run
\* comes), no answer is collected, the score of the summary is 0, and a
\* record the session stores has no technical answers and score_percent 0.
C19_EmptyQuestionListGoesToSummary ==
  /\ [](\A s \in Sessions :
          NoQuestions(s) =>
            /\ tech_answers[s] = <<>>
            /\ calculate_score(tech_answers[s]) = 0
            /\ \A doc \in InsertedBy(s) :
                 doc.technical_answers = <<>> /\ doc.score_percent = 0)
  /\ [][\A s \in Sessions :
          (NoQuestions(s) /\ step[s] = Len(form_fields) + 1)
            => (AdvanceToSummary(s) \/ OfSession(s)' = OfSession(s))]_vars
  /\ \A s \in Sessions : NoQuestions(s) ~> step[s] = Len(form_fields) + 2

\* C19's case: a session whose generator returned nothing has stored its
\* record from the summary.
C19_Witness ==
  \E s \in Sessions :
    /\ NoQuestions(s)
    /\ step[s] = Len(form_fields) + 2
    /\ message[s] = "Data submitted and saved!"
    /\ \E doc \in InsertedBy(s) : doc.score_percent = 0

\* The user of a session in Collecting has a value to submit that is valid
\* and belongs to no stored record.
CanSubmitFresh(s) ==
  step[s] < Len(form_fields) => \E raw \in AllFieldInputs : FreshValue(s, raw)

\* C20. Whenever a session is in Generating its Tech Stack is present and
\* non-empty, so the "Tech Stack not found." branch is never taken; and a
\* session whose user keeps submitting valid non-duplicate input, and whose
\* completion-service calls return, reaches Summary (so: every session
\* comes to Summary, or to a point where its user has no valid value left
\* that no stored record holds).
C20_WizardReachesSummary ==
  /\ [](\A s \in Sessions :
          /\ step[s] = Len(form_fields) => Get(answers[s], "Tech Stack", <<>>) # <<>>
          /\ message[s] # "Tech Stack not found.")
  /\ \A s \in Sessions : <>(step[s] = Len(form_fields) + 2 \/ ~CanSubmitFresh(s))
====
